---- MODULE Spec2Model ----
(***************************************************************************)
(* Model of the swagger-rs middleware adapters:                            *)
(*   src/src/add_context.rs  AddContextMakeService / AddContextService     *)
(*   src/src/auth.rs         MakeAllowAllAuthenticator /                   *)
(*                           AllowAllAuthenticator / tests::TestService    *)
(*   src/src/make.rs         IntoMakeService                               *)
(* Strings that the code inspects byte by byte (header values, span ids)   *)
(* are sequences of byte values; opaque strings are TLA+ strings.          *)
(***************************************************************************)
EXTENDS Integers, Sequences, FiniteSets, TLC

VARIABLES maker, made, inflight, rng

vars == <<maker, made, inflight, rng>>

(***************************************************************************)
(* Bounds of the model.                                                    *)
(***************************************************************************)
\* factory calls and clones recorded
MaxMade == 2
\* requests whose call has been issued
MaxInFlight == 2

(***************************************************************************)
(* Values.  Every variant is a record whose field names tell it from the   *)
(* other variants of its type.                                             *)
(***************************************************************************)
\* Result<T, E> and a future that has not resolved yet
Ok(v) == [ok |-> v]
Err(e) == [err |-> e]
Pending == [pending |-> TRUE]
IsOk(r) == DOMAIN r = {"ok"}
IsErr(r) == DOMAIN r = {"err"}
IsPending(r) == DOMAIN r = {"pending"}

\* Option<T>
Some(v) == [some |-> TRUE, val |-> v]
None == [some |-> FALSE]

Error(msg) == [msg |-> msg]
Response(body) == [status |-> 200, body |-> body]

Subjects == {"foo", "bar"}
Targets == {"t1", "t2"}
Errors == {Error("e1"), Error("e2")}

\* "abc-123"
ABC == <<97, 98, 99, 45, 49, 50, 51>>
\* "xyz"
XYZ == <<120, 121, 122>>
\* ""
EMPTY == <<>>
\* bytes outside visible ASCII
INVALID == <<195, 169>>

X_SPAN_ID == "x-span-id"

Header(name, value) == [name |-> name, value |-> value]
Request(headers, body) == [headers |-> headers, body |-> body]

ReqNone == Request(<<>>, "b1")
ReqAbc == Request(<<Header(X_SPAN_ID, ABC)>>, "b1")
ReqEmpty == Request(<<Header(X_SPAN_ID, EMPTY)>>, "b2")
ReqInvalid == Request(<<Header(X_SPAN_ID, INVALID)>>, "b1")
ReqRepeated == Request(<<Header("accept", XYZ), Header(X_SPAN_ID, ABC),
                          Header(X_SPAN_ID, XYZ)>>, "b2")
ReqRepeated2 == Request(<<Header("accept", XYZ), Header(X_SPAN_ID, EMPTY),
                           Header(X_SPAN_ID, XYZ)>>, "b1")

\* requests sent to a service that takes a bare request
Requests == {ReqNone, ReqAbc, ReqEmpty, ReqInvalid, ReqRepeated, ReqRepeated2}

(***************************************************************************)
(* auth.rs: Scopes, Authorization.                                         *)
(***************************************************************************)
ScopesAll == [all |-> TRUE]
ScopesSome(s) == [set |-> s]

Authorization(subject, scopes, issuer) ==
  [subject |-> subject, scopes |-> scopes, issuer |-> issuer]

(***************************************************************************)
(* Context container: a stack of typed frames, the last one pushed last.   *)
(***************************************************************************)
TXSpan == "XSpanIdString"
TAuth == "Option<Authorization>"

XSpanIdString(s) == [span |-> s]

Frame(type, val) == [type |-> type, val |-> val]

ContextDefault == <<>>

Push(context, type, val) == Append(context, Frame(type, val))

Has(context, type) == \E i \in 1..Len(context) : context[i].type = type

Get(context, type) ==
  LET idx == {i \in 1..Len(context) : context[i].type = type}
      top == CHOOSE i \in idx : \A j \in idx : j <= i
  IN context[top].val

(***************************************************************************)
(* Correlation id: XSpanIdString::get_or_generate.  rng counts the uuids   *)
(* drawn so far; the n-th draw is a value no earlier draw returned.        *)
(***************************************************************************)
HexDigit(d) == IF d < 10 THEN 48 + d ELSE 87 + d

\* canonical 8-4-4-4-12 rendering of a version-4 uuid whose random bits are n
UuidToString(n) ==
  [i \in 1..36 |->
     IF i \in {9, 14, 19, 24} THEN 45
     ELSE IF i = 15 THEN 52
     ELSE IF i = 36 THEN HexDigit(n % 16)
     ELSE IF i = 35 THEN HexDigit((n \div 16) % 16)
     ELSE 48]

\* HeaderValue::to_str: only visible ASCII and tab convert
HeaderValue_to_str(v) ==
  IF \A i \in 1..Len(v) : (v[i] >= 32 /\ v[i] < 127) \/ v[i] = 9
  THEN Ok(v) ELSE Err(Error("ToStrError"))

\* HeaderMap::get: the first value stored under the name
HeaderMap_get(headers, name) ==
  LET idx == {i \in 1..Len(headers) : headers[i].name = name}
  IN IF idx = {} THEN None
     ELSE Some(headers[CHOOSE i \in idx : \A j \in idx : i <= j].value)

XSpanIdString_get_or_generate(req, rng0) ==
  LET found == HeaderMap_get(req.headers, X_SPAN_ID)
      str == IF found.some THEN HeaderValue_to_str(found.val) ELSE Err(Error("absent"))
  IN IF IsOk(str) /\ str.ok # <<>>
     THEN [id |-> XSpanIdString(str.ok), rng |-> rng0]
     ELSE [id |-> XSpanIdString(UuidToString(rng0)), rng |-> rng0 + 1]

(***************************************************************************)
(* Services.  Handler(id, takes) stands for any inner service the          *)
(* middlewares are instantiated with: it implements Clone and              *)
(* Service<(Request, C)> for the one context type C whose frame types are  *)
(* takes.  TestService is the one of auth.rs's tests.                      *)
(***************************************************************************)
Handler(id, takes) == [kind |-> "Handler", id |-> id, takes |-> takes]
TestService == [kind |-> "TestService"]

AddContextService_new(inner) ==
  [kind |-> "AddContextService", inner |-> inner]

AllowAllAuthenticator_new(inner, subject) ==
  [kind |-> "AllowAllAuthenticator", inner |-> inner, subject |-> subject]

IsMiddleware(svc) == svc.kind \in {"AddContextService", "AllowAllAuthenticator"}

RECURSIVE Clone(_)

AddContextService_clone(self) ==
  [kind |-> "AddContextService", inner |-> Clone(self.inner)]

AllowAllAuthenticator_clone(self) ==
  [kind |-> "AllowAllAuthenticator", inner |-> Clone(self.inner),
   subject |-> self.subject]

\* Clone::clone; TestService has no Clone
Clone(svc) ==
  CASE svc.kind = "AddContextService" -> AddContextService_clone(svc)
    [] svc.kind = "AllowAllAuthenticator" -> AllowAllAuthenticator_clone(svc)
    [] svc.kind = "Handler" -> svc

\* the service's type implements Clone: the bound Inner: Clone of the
\* middlewares' Clone impls; tests::TestService declares none
RECURSIVE Cloneable(_)
Cloneable(svc) ==
  CASE svc.kind = "Handler" -> TRUE
    [] svc.kind = "TestService" -> FALSE
    [] OTHER -> Cloneable(svc.inner)

\* the service at the end of the chain
RECURSIVE Terminal(_)
Terminal(svc) == IF IsMiddleware(svc) THEN Terminal(svc.inner) ELSE svc

\* the frame types of a context, innermost first
ContextTypes(context) == [i \in 1..Len(context) |-> context[i].type]

\* the frame types of the context type C for which the service implements
\* Service<(Request, C)>; AddContextService takes the bare request.
\* AllowAllAuthenticator<Inner, RC, ..> takes RC where Inner takes
\* RC::Result, the type of RC with an Option<Authorization> pushed.
RECURSIVE Takes(_)
Takes(svc) ==
  CASE svc.kind = "Handler" -> svc.takes
    [] svc.kind = "TestService" -> <<TAuth>>
    [] svc.kind = "AllowAllAuthenticator" ->
         SubSeq(Takes(svc.inner), 1, Len(Takes(svc.inner)) - 1)
    [] svc.kind = "AddContextService" -> <<>>

(***************************************************************************)
(* Service::call of the request-level middlewares.  A call returns the     *)
(* inner invocations it made, outermost first, the rng state it leaves and *)
(* the number of base contexts it built.                                   *)
(***************************************************************************)
RECURSIVE Service_call(_, _, _, _)

\* self.inner.call((request, context))
Invoke(self, req, context, rng0) ==
  LET r == Service_call(self.inner, req, context, rng0)
  IN [calls |-> <<[by |-> self, to |-> self.inner, req |-> req,
                   context |-> context]>> \o r.calls,
      rng |-> r.rng, defaults |-> r.defaults]

\* variant: the inner service is called a second time
AddContextService_call_twice(self, req, rng0) ==
  LET x_span_id == XSpanIdString_get_or_generate(req, rng0)
      context == Push(ContextDefault, TXSpan, x_span_id.id)
      r == Invoke(self, req, context, x_span_id.rng)
  IN [r EXCEPT !.defaults = @ + 1, !.calls = @ \o r.calls]

\* variant: the id is always generated, the header is not consulted
AddContextService_call_always_generate(self, req, rng0) ==
  LET context == Push(ContextDefault, TXSpan, XSpanIdString(UuidToString(rng0)))
      r == Invoke(self, req, context, rng0 + 1)
  IN [r EXCEPT !.defaults = @ + 1]

\* variant: every generated id comes from the same generator state
AddContextService_call_same_seed(self, req, rng0) ==
  LET x_span_id == XSpanIdString_get_or_generate(req, 0)
      context == Push(ContextDefault, TXSpan, x_span_id.id)
      r == Invoke(self, req, context, rng0 + x_span_id.rng)
  IN [r EXCEPT !.defaults = @ + 1]

\* variant: the id is derived from the request that entered last, when one
\* is still in flight
AddContextService_call_shared_span(self, req, rng0) ==
  LET current == IF inflight # <<>> /\ IsPending(inflight[Len(inflight)].outcome)
                 THEN inflight[Len(inflight)].req ELSE req
      x_span_id == XSpanIdString_get_or_generate(current, rng0)
      context == Push(ContextDefault, TXSpan, x_span_id.id)
      r == Invoke(self, req, context, x_span_id.rng)
  IN [r EXCEPT !.defaults = @ + 1]

AddContextService_call(self, req, rng0) ==
  LET x_span_id == XSpanIdString_get_or_generate(req, rng0)
      context == Push(ContextDefault, TXSpan, x_span_id.id)
      r == Invoke(self, req, context, x_span_id.rng)
  IN [r EXCEPT !.defaults = @ + 1]

\* variant: a context that already holds an authorization is left as it is
AllowAllAuthenticator_call_keep_existing(self, request, context, rng0) ==
  LET context2 == IF Has(context, TAuth) THEN context
                  ELSE Push(context, TAuth,
                            Some(Authorization(self.subject, ScopesAll, None)))
  IN Invoke(self, request, context2, rng0)

\* variant: the authorization is pushed onto a new base context
AllowAllAuthenticator_call_fresh_context(self, request, context, rng0) ==
  LET context2 == Push(ContextDefault, TAuth,
                       Some(Authorization(self.subject, ScopesAll, None)))
  IN Invoke(self, request, context2, rng0)

AllowAllAuthenticator_call(self, request, context, rng0) ==
  LET context2 == Push(context, TAuth,
                       Some(Authorization(self.subject, ScopesAll, None)))
  IN Invoke(self, request, context2, rng0)

Service_call(svc, req, context, rng0) ==
  CASE svc.kind = "AddContextService" -> AddContextService_call(svc, req, rng0)
    [] svc.kind = "AllowAllAuthenticator" ->
         AllowAllAuthenticator_call(svc, req, context, rng0)
    [] OTHER -> [calls |-> <<>>, rng |-> rng0, defaults |-> 0]

(***************************************************************************)
(* What the future returned by call resolves to, given what the future of  *)
(* the inner call resolved to.                                             *)
(***************************************************************************)
\* type Future = Inner::Future: the inner future itself is returned
AddContextService_future(self, inner_result) == inner_result

\* variant: an inner error is reported as the authenticator's own
AllowAllAuthenticator_future_own_error(self, inner_result) ==
  IF IsErr(inner_result) THEN Err(Error("unauthorized")) ELSE inner_result

\* Box::pin(self.inner.call(..))
AllowAllAuthenticator_future(self, inner_result) == inner_result

RECURSIVE Service_future(_, _)
Service_future(svc, terminal_result) ==
  CASE svc.kind = "AddContextService" ->
         AddContextService_future(svc, Service_future(svc.inner, terminal_result))
    [] svc.kind = "AllowAllAuthenticator" ->
         AllowAllAuthenticator_future(svc, Service_future(svc.inner, terminal_result))
    [] OTHER -> terminal_result

\* tests::TestService::call
TestService_call(req, context) ==
  LET auth == Get(context, TAuth)
      expected == Some(Authorization("foo", ScopesAll, None))
  IN IF auth = expected THEN Ok(Response("default"))
     ELSE Err([left |-> auth, right |-> expected])

\* what an arbitrary inner service may answer
HandlerResults == {Ok(Response("r1"))} \cup {Err(e) : e \in Errors}

(***************************************************************************)
(* Factories.                                                              *)
(***************************************************************************)
MakeHandler(takes) == [kind |-> "MakeHandler", takes |-> takes]
MakeTestService == [kind |-> "MakeTestService"]

AddContextMakeService_new(inner) ==
  [kind |-> "AddContextMakeService", inner |-> inner]

MakeAllowAllAuthenticator_new(inner, subject) ==
  [kind |-> "MakeAllowAllAuthenticator", inner |-> inner, subject |-> subject]

IntoMakeService_new(service) ==
  [kind |-> "IntoMakeService", service |-> service]

IsMakeMiddleware(mk) ==
  mk.kind \in {"AddContextMakeService", "MakeAllowAllAuthenticator"}

RECURSIVE BaseMaker(_)
BaseMaker(mk) == IF IsMakeMiddleware(mk) THEN BaseMaker(mk.inner) ELSE mk

\* the inner factory invocations a factory call makes, outermost first
RECURSIVE Maker_call(_, _)

AddContextMakeService_call(self, target) ==
  <<[by |-> self, to |-> self.inner, target |-> target]>>
    \o Maker_call(self.inner, target)

MakeAllowAllAuthenticator_call(self, target) ==
  <<[by |-> self, to |-> self.inner, target |-> target]>>
    \o Maker_call(self.inner, target)

Maker_call(mk, target) ==
  CASE mk.kind = "AddContextMakeService" -> AddContextMakeService_call(mk, target)
    [] mk.kind = "MakeAllowAllAuthenticator" ->
         MakeAllowAllAuthenticator_call(mk, target)
    [] OTHER -> <<>>

\* variant: every inner error becomes the same error
AddContextMakeService_future_lossy(self, inner_result) ==
  IF IsErr(inner_result) THEN Err(Error("e1"))
  ELSE Ok(AddContextService_new(inner_result.ok))

\* .map(|s| Ok(AddContextService::new(s?)))
AddContextMakeService_future(self, inner_result) ==
  IF IsErr(inner_result) THEN Err(inner_result.err)
  ELSE Ok(AddContextService_new(inner_result.ok))

\* variant: the configured subject is not handed to the service
MakeAllowAllAuthenticator_future_no_subject(self, inner_result) ==
  IF IsErr(inner_result) THEN Err(inner_result.err)
  ELSE Ok(AllowAllAuthenticator_new(inner_result.ok, ""))

\* .map(|s| Ok(AllowAllAuthenticator::new(s?, subject)))
MakeAllowAllAuthenticator_future(self, inner_result) ==
  IF IsErr(inner_result) THEN Err(inner_result.err)
  ELSE Ok(AllowAllAuthenticator_new(inner_result.ok, self.subject))

RECURSIVE Maker_future(_, _)
Maker_future(mk, base_result) ==
  CASE mk.kind = "AddContextMakeService" ->
         AddContextMakeService_future(mk, Maker_future(mk.inner, base_result))
    [] mk.kind = "MakeAllowAllAuthenticator" ->
         MakeAllowAllAuthenticator_future(mk, Maker_future(mk.inner, base_result))
    [] OTHER -> base_result

\* variant: only the first target gets the whole service
IntoMakeService_call_by_target(self, target) ==
  IF target = "t1" THEN Ok(Clone(self.service)) ELSE Ok(Clone(self.service.inner))

\* ready(Ok(self.service.clone()))
IntoMakeService_call(self, target) == Ok(Clone(self.service))

\* tests::MakeTestService::call
MakeTestService_call(target) == Ok(TestService)

\* what the future of an arbitrary inner factory may resolve to
MakeHandlerResults(self, target) ==
  {Ok(Handler(target, self.takes))} \cup {Err(e) : e \in Errors}

\* what the innermost factory's future may resolve to; IntoMakeService has
\* no inner factory
BaseResults(mk, target) ==
  CASE BaseMaker(mk).kind = "MakeTestService" -> {MakeTestService_call(target)}
    [] BaseMaker(mk).kind = "MakeHandler" ->
         MakeHandlerResults(BaseMaker(mk), target)
    [] OTHER -> {}

\* the context types RC a stand-alone authenticator is instantiated with
RCs == {<<>>, <<TXSpan>>, <<TXSpan, TAuth>>, <<TAuth, TXSpan>>}

\* the stacks a program may be built with; each satisfies the trait bounds
\* of its layers: what AddContextService wraps is Clone and takes the
\* one-frame context, what AllowAllAuthenticator wraps takes RC::Result
Makers ==
  {AddContextMakeService_new(MakeHandler(<<TXSpan>>))}
  \cup {AddContextMakeService_new(
          MakeAllowAllAuthenticator_new(MakeHandler(<<TXSpan, TAuth>>), s)) :
          s \in Subjects}
  \cup {MakeAllowAllAuthenticator_new(MakeHandler(Append(rc, TAuth)), s) :
          rc \in RCs, s \in Subjects}
  \cup {MakeAllowAllAuthenticator_new(MakeTestService, s) : s \in Subjects}
  \cup {IntoMakeService_new(
          AddContextService_new(
            AllowAllAuthenticator_new(Handler("h0", <<TXSpan, TAuth>>), s))) :
          s \in Subjects}

(***************************************************************************)
(* State.                                                                  *)
(*   maker     the factory stack the program was built with                *)
(*   made      one entry per factory call or clone: the inner factory      *)
(*             invocations it made, what the innermost factory's future    *)
(*             resolved to, and what the caller's future resolved to       *)
(*   inflight  one entry per request-level call: the service called, the   *)
(*             input, the rng state found, the inner invocations made,     *)
(*             what the terminal service's future resolved to and what the *)
(*             caller's did                                                *)
(*   rng       uuids drawn so far                                          *)
(***************************************************************************)
NoInner == [none |-> TRUE]


Upstream == Authorization("upstream", ScopesSome({"read"}), Some("issuer"))

\* contexts handed to a service that takes (request, context)
Contexts ==
  {ContextDefault,
   Push(ContextDefault, TXSpan, XSpanIdString(ABC)),
   Push(Push(ContextDefault, TXSpan, XSpanIdString(XYZ)), TAuth, None),
   Push(Push(ContextDefault, TAuth, Some(Upstream)), TXSpan, XSpanIdString(ABC))}

\* requests sent to a service that takes (request, context)
AuthRequests == {ReqNone, ReqAbc}

Inputs ==
  {<<req, ContextDefault>> : req \in Requests}
  \cup {<<req, context>> : req \in AuthRequests, context \in Contexts}

Init ==
  /\ maker \in Makers
  /\ made = <<>>
  /\ inflight = <<>>
  /\ rng = 0

\* Service<Target>::call on the program's factory
MakeCall(target) ==
  /\ Len(made) < MaxMade
  /\ made' = Append(made,
       IF maker.kind = "IntoMakeService"
       THEN [op |-> "make", target |-> target, of |-> 0, calls |-> <<>>,
             inner |-> NoInner, result |-> IntoMakeService_call(maker, target)]
       ELSE [op |-> "make", target |-> target, of |-> 0,
             calls |-> Maker_call(maker, target),
             inner |-> Pending, result |-> Pending])
  /\ UNCHANGED <<maker, inflight, rng>>

\* the innermost factory's future resolves, and with it the caller's
MakeResolve(i, base_result) ==
  /\ IsPending(made[i].result)
  /\ made' = [made EXCEPT ![i].inner = base_result,
                          ![i].result = Maker_future(maker, base_result)]
  /\ UNCHANGED <<maker, inflight, rng>>

\* Clone::clone on a service a factory call produced
CloneService(i) ==
  /\ Len(made) < MaxMade
  /\ IsOk(made[i].result)
  /\ Cloneable(made[i].result.ok)
  /\ made' = Append(made,
       [op |-> "clone", target |-> made[i].target, of |-> i, calls |-> <<>>,
        inner |-> NoInner, result |-> Ok(Clone(made[i].result.ok))])
  /\ UNCHANGED <<maker, inflight, rng>>

\* Service::call on a produced service
Call(i, req, context) ==
  /\ Len(inflight) < MaxInFlight
  /\ IsOk(made[i].result)
  /\ LET svc == made[i].result.ok
         r == Service_call(svc, req, context, rng)
     IN /\ IF svc.kind = "AddContextService"
           THEN req \in Requests /\ context = ContextDefault
           ELSE /\ req \in AuthRequests
                /\ context \in Contexts
                /\ ContextTypes(context) = Takes(svc)
        /\ inflight' = Append(inflight,
             [h |-> i, req |-> req, context |-> context, rng0 |-> rng,
              calls |-> r.calls, defaults |-> r.defaults,
              inner |-> Pending, outcome |-> Pending])
        /\ rng' = r.rng
  /\ UNCHANGED <<maker, made>>

\* the service the k-th call was made on
Svc(k) == made[inflight[k].h].result.ok

\* the future of an arbitrary terminal service resolves
HandlerComplete(k, result) ==
  /\ IsPending(inflight[k].outcome)
  /\ Terminal(Svc(k)).kind = "Handler"
  /\ inflight' = [inflight EXCEPT
       ![k].inner = result,
       ![k].outcome = Service_future(Svc(k), result)]
  /\ UNCHANGED <<maker, made, rng>>

\* the future of TestService resolves
TestServiceComplete(k) ==
  /\ IsPending(inflight[k].outcome)
  /\ Terminal(Svc(k)).kind = "TestService"
  /\ LET last == inflight[k].calls[Len(inflight[k].calls)]
         result == TestService_call(last.req, last.context)
     IN inflight' = [inflight EXCEPT
          ![k].inner = result,
          ![k].outcome = Service_future(Svc(k), result)]
  /\ UNCHANGED <<maker, made, rng>>

Next ==
  \/ \E target \in Targets : MakeCall(target)
  \/ \E i \in 1..Len(made) :
       \E r \in BaseResults(maker, made[i].target) : MakeResolve(i, r)
  \/ \E i \in 1..Len(made) : CloneService(i)
  \/ \E i \in 1..Len(made), input \in Inputs : Call(i, input[1], input[2])
  \/ \E k \in 1..Len(inflight), result \in HandlerResults : HandlerComplete(k, result)
  \/ \E k \in 1..Len(inflight) : TestServiceComplete(k)

Spec == Init /\ [][Next]_vars

(***************************************************************************)
(* Vocabulary of the properties.                                           *)
(***************************************************************************)
Calls == 1..Len(inflight)
Made == 1..Len(made)

\* the values of the request's correlation-id headers, in order
SpanValues(req) ==
  LET hs == SelectSeq(req.headers, LAMBDA hd : hd.name = "x-span-id")
  IN [i \in 1..Len(hs) |-> hs[i].value]

VisibleAscii(v) == \A i \in 1..Len(v) : v[i] \in (32..126) \cup {9}

\* the request carries a valid non-empty correlation id
CarriesId(req) ==
  /\ SpanValues(req) # <<>>
  /\ SpanValues(req)[1] # <<>>
  /\ VisibleAscii(SpanValues(req)[1])

OnAddContext(k) == Svc(k).kind = "AddContextService"

\* the context the k-th call's j-th invocation was entered with
ContextBefore(k, j) ==
  IF j = 1 THEN inflight[k].context ELSE inflight[k].calls[j - 1].context

\* the correlation id AddContextService forwarded on the k-th call
ForwardedId(k) == Get(inflight[k].calls[1].context, TXSpan).span

\* the invocation that reached the terminal service on the k-th call
LastCall(k) == inflight[k].calls[Len(inflight[k].calls)]

RECURSIVE MakeSubjects(_)
\* subjects the MakeAllowAllAuthenticator layers of a factory were built with
MakeSubjects(mk) ==
  IF ~IsMakeMiddleware(mk) THEN {}
  ELSE (IF mk.kind = "MakeAllowAllAuthenticator" THEN {mk.subject} ELSE {})
         \cup MakeSubjects(mk.inner)

RECURSIVE Wrapped(_, _)
\* the service a factory stack is to produce around the inner service s
Wrapped(mk, s) ==
  CASE mk.kind = "AddContextMakeService" ->
         [kind |-> "AddContextService", inner |-> Wrapped(mk.inner, s)]
    [] mk.kind = "MakeAllowAllAuthenticator" ->
         [kind |-> "AllowAllAuthenticator", inner |-> Wrapped(mk.inner, s),
          subject |-> mk.subject]
    [] OTHER -> s

RECURSIVE MakeDepth(_)
MakeDepth(mk) == IF IsMakeMiddleware(mk) THEN 1 + MakeDepth(mk.inner) ELSE 0

(***************************************************************************)
(* C1.  Every service produced by a MakeAllowAllAuthenticator built with   *)
(* subject s, and every clone of one, on every call invokes its own inner  *)
(* service with a context whose Option<Authorization> frame, as get        *)
(* returns it, is Some(Authorization{subject: s, scopes: All, issuer:      *)
(* None}), whatever the request, the incoming context (an upstream         *)
(* Option<Authorization> frame included) and the calls served before.      *)
(***************************************************************************)
C1_StubIdentity ==
  \A k \in Calls : \A s \in MakeSubjects(maker) :
    /\ \E j \in 1..Len(inflight[k].calls) :
         inflight[k].calls[j].by.kind = "AllowAllAuthenticator"
    /\ \A j \in 1..Len(inflight[k].calls) :
         LET c == inflight[k].calls[j]
         IN c.by.kind = "AllowAllAuthenticator" =>
              /\ c.to = c.by.inner
              /\ Has(c.context, TAuth)
              /\ Get(c.context, TAuth)
                   = [some |-> TRUE,
                      val |-> [subject |-> s, scopes |-> [all |-> TRUE],
                               issuer |-> [some |-> FALSE]]]

\* a clone of a produced service, configured with "bar", serves a second
\* call whose incoming context already holds an upstream authorization
C1_Witness ==
  /\ maker.kind = "MakeAllowAllAuthenticator"
  /\ maker.subject = "bar"
  /\ Len(inflight) = 2
  /\ made[inflight[1].h].op = "make"
  /\ made[inflight[2].h].op = "clone"
  /\ inflight[2].req # inflight[1].req
  /\ Has(inflight[2].context, TAuth)
  /\ Get(inflight[2].context, TAuth) = Some(Upstream)

(***************************************************************************)
(* C2.  On every call of AddContextService::call one base context is       *)
(* built and the inner service is invoked exactly once, with the request   *)
(* and a context holding exactly one frame: the correlation id that        *)
(* get_or_generate derives from that request, which is thus the innermost  *)
(* frame when the inner service is entered.                                *)
(***************************************************************************)
C2_OneContextPerRequest ==
  \A k \in Calls : OnAddContext(k) =>
    LET c == inflight[k]
        mine == {j \in 1..Len(c.calls) : c.calls[j].by.kind = "AddContextService"}
    IN /\ c.defaults = 1
       /\ mine = {1}
       /\ c.calls[1].by = Svc(k)
       /\ c.calls[1].to = Svc(k).inner
       /\ c.calls[1].req = c.req
       /\ Len(c.calls[1].context) = 1
       /\ c.calls[1].context[1].type = TXSpan
       /\ c.calls[1].context[Len(c.calls[1].context)].val
            = XSpanIdString_get_or_generate(c.req, c.rng0).id

\* AddContextService wrapping the authenticator served a request that needed
\* a generated id, after an earlier request had drawn one
C2_Witness ==
  \E k \in Calls :
    /\ OnAddContext(k)
    /\ Svc(k).inner.kind = "AllowAllAuthenticator"
    /\ inflight[k].rng0 = 1
    /\ inflight[k].req = ReqInvalid
    /\ Len(inflight[k].calls) = 2

(***************************************************************************)
(* C3.  When the request carries a valid non-empty X-Span-Id header, the   *)
(* correlation id AddContextService forwards is that header's value, byte  *)
(* for byte; of a repeated header the first value is used.                 *)
(***************************************************************************)
C3_HeaderIdForwarded ==
  \A k \in Calls : (OnAddContext(k) /\ CarriesId(inflight[k].req)) =>
    /\ Has(inflight[k].calls[1].context, TXSpan)
    /\ ForwardedId(k) = SpanValues(inflight[k].req)[1]
    /\ inflight[k].req = ReqAbc => ForwardedId(k) = <<97, 98, 99, 45, 49, 50, 51>>

\* both "abc-123" alone and a repeated header were served
C3_Witness ==
  /\ Len(inflight) = 2
  /\ OnAddContext(1)
  /\ inflight[1].req = ReqRepeated
  /\ inflight[2].req = ReqAbc
  /\ ForwardedId(1) = ABC
  /\ ForwardedId(2) = ABC

(***************************************************************************)
(* C4.  When the request has no X-Span-Id header, or its value is empty or *)
(* not valid text, the call still goes through and the forwarded           *)
(* correlation id is a generated one: not empty, not a value of the        *)
(* request, and different from the id generated for any other such         *)
(* request.                                                                *)
(***************************************************************************)
C4_GeneratedIdFresh ==
  \A k \in Calls : (OnAddContext(k) /\ ~CarriesId(inflight[k].req)) =>
    /\ Has(inflight[k].calls[1].context, TXSpan)
    /\ ForwardedId(k) # <<>>
    /\ Len(ForwardedId(k)) = 36
    /\ \A i \in 1..Len(SpanValues(inflight[k].req)) :
         ForwardedId(k) # SpanValues(inflight[k].req)[i]
    /\ \A k2 \in Calls \ {k} :
         (OnAddContext(k2) /\ ~CarriesId(inflight[k2].req)) =>
           ForwardedId(k2) # ForwardedId(k)

\* two requests without a usable header were served, one with an empty
\* value and one with invalid bytes
C4_Witness ==
  /\ Len(inflight) = 2
  /\ OnAddContext(1)
  /\ inflight[1].req = ReqEmpty
  /\ inflight[2].req = ReqInvalid
  /\ rng = 2

(***************************************************************************)
(* C5.  A call of AddContextMakeService or MakeAllowAllAuthenticator       *)
(* invokes the inner factory exactly once, with the target it was given.   *)
(* When the inner future resolves to Err(e) the call's future resolves to  *)
(* Err(e) and yields no service; when it resolves to Ok(s) the call's      *)
(* future resolves to Ok of the middleware service wrapping s.  This holds *)
(* of every call, whatever earlier calls returned.                         *)
(***************************************************************************)
C5_FactoryPassThrough ==
  \A i \in Made : (made[i].op = "make" /\ IsMakeMiddleware(maker)) =>
    LET m == made[i]
    IN /\ Len(m.calls) = MakeDepth(maker)
       /\ m.calls[1].by = maker
       /\ \A j \in 1..Len(m.calls) :
            /\ m.calls[j].to = m.calls[j].by.inner
            /\ m.calls[j].target = m.target
            /\ j > 1 => m.calls[j].by = m.calls[j - 1].to
       /\ IsPending(m.inner) <=> IsPending(m.result)
       /\ IsErr(m.inner) => m.result = [err |-> m.inner.err]
       /\ IsOk(m.inner) => m.result = [ok |-> Wrapped(maker, m.inner.ok)]

\* the two-layer factory failed with e2 on its first call and produced a
\* service for another target on its second
C5_Witness ==
  /\ maker.kind = "AddContextMakeService"
  /\ maker.inner.kind = "MakeAllowAllAuthenticator"
  /\ Len(made) = 2
  /\ made[1].result = Err(Error("e2"))
  /\ made[2].op = "make"
  /\ made[2].target # made[1].target
  /\ IsOk(made[2].result)

(***************************************************************************)
(* C6.  Through the chain AddContextService -> AllowAllAuthenticator ->    *)
(* terminal service, the caller's future resolves exactly when and to what *)
(* the terminal service's future resolves: the same error value, the same  *)
(* response; and the terminal service is invoked once, never retried.      *)
(***************************************************************************)
C6_OutcomePassThrough ==
  \A k \in Calls :
    (OnAddContext(k) /\ Svc(k).inner.kind = "AllowAllAuthenticator") =>
      LET c == inflight[k]
          t == Svc(k).inner.inner
      IN /\ Cardinality({j \in 1..Len(c.calls) : c.calls[j].to = t}) = 1
         /\ Len(c.calls) = 2
         /\ IsPending(c.outcome) <=> IsPending(c.inner)
         /\ IsErr(c.outcome) <=> IsErr(c.inner)
         /\ IsErr(c.inner) => c.outcome.err = c.inner.err
         /\ IsOk(c.inner) => c.outcome = [ok |-> c.inner.ok]

\* through the full chain one request failed with the handler's e2 and
\* another succeeded
C6_Witness ==
  /\ Len(inflight) = 2
  /\ OnAddContext(1) /\ Svc(1).inner.kind = "AllowAllAuthenticator"
  /\ OnAddContext(2) /\ Svc(2).inner.kind = "AllowAllAuthenticator"
  /\ Svc(1).inner.inner.kind = "Handler"
  /\ inflight[1].inner = Err(Error("e2"))
  /\ inflight[1].outcome = Err(Error("e2"))
  /\ inflight[2].outcome = Ok(Response("r1"))

(***************************************************************************)
(* C7.  Every call of an IntoMakeService, for any target and after any     *)
(* number of calls, is resolved at once to Ok of a duplicate of the        *)
(* wrapped service: never an error, no inner factory invoked, the same for *)
(* every target, and the wrapped service stays as it was.                  *)
(***************************************************************************)
C7_IntoMakeService ==
  maker.kind = "IntoMakeService" =>
    \A i \in Made : made[i].op = "make" =>
      /\ made[i].calls = <<>>
      /\ ~IsPending(made[i].result)
      /\ IsOk(made[i].result)
      /\ made[i].result.ok = maker.service
      /\ \A i2 \in Made : made[i2].op = "make" => made[i2].result = made[i].result

\* the adapter was called for two different targets
C7_Witness ==
  /\ maker.kind = "IntoMakeService"
  /\ Len(made) = 2
  /\ made[1].op = "make" /\ made[2].op = "make"
  /\ made[1].target # made[2].target

(***************************************************************************)
(* C8.  get of a value's type on the context it was just pushed on returns *)
(* that value; when the context already held a value of that type, get     *)
(* returns the newly pushed one and not the older; a value of another type *)
(* pushed earlier is still returned by get of its type.                    *)
(***************************************************************************)
C8_PushGetShadowing ==
  \A k \in Calls : \A j \in 1..Len(inflight[k].calls) :
    LET c == inflight[k].calls[j]
        before == ContextBefore(k, j)
        pushed == [some |-> TRUE,
                   val |-> [subject |-> c.by.subject, scopes |-> [all |-> TRUE],
                            issuer |-> [some |-> FALSE]]]
    IN c.by.kind = "AllowAllAuthenticator" =>
         /\ Has(c.context, TAuth)
         /\ Get(c.context, TAuth) = pushed
         /\ Has(before, TAuth) => Get(c.context, TAuth) # Get(before, TAuth)
         /\ Has(before, TXSpan) =>
              /\ Has(c.context, TXSpan)
              /\ Get(c.context, TXSpan) = Get(before, TXSpan)
         /\ (c.to.kind = "TestService" /\ ~IsPending(inflight[k].inner)) =>
              (IsOk(inflight[k].inner) <=> c.by.subject = "foo")

\* the authenticator pushed onto a context that already held an
\* authorization, pushed before a correlation id
C8_Witness ==
  \E k \in Calls :
    /\ inflight[k].calls[1].by.kind = "AllowAllAuthenticator"
    /\ Len(inflight[k].context) = 2
    /\ inflight[k].context[1].type = TAuth
    /\ inflight[k].context[1].val = Some(Upstream)
    /\ inflight[k].context[2].type = TXSpan
    /\ ~IsPending(inflight[k].inner)

(***************************************************************************)
(* C9.  With several requests in flight through the same or cloned         *)
(* services, in any order of calls and completions, the terminal service   *)
(* sees for each request the correlation id derived from that request: the *)
(* request's own header value, or a generated id no other request was      *)
(* given; and what was passed down for one request is never changed by a   *)
(* step taken for another.                                                 *)
(***************************************************************************)
C9_OwnContext ==
  \A k \in Calls : OnAddContext(k) =>
    LET id == Get(LastCall(k).context, TXSpan).span
    IN /\ LastCall(k).req = inflight[k].req
       /\ Has(LastCall(k).context, TXSpan)
       /\ IF CarriesId(inflight[k].req)
          THEN id = SpanValues(inflight[k].req)[1]
          ELSE \A k2 \in Calls \ {k} :
                 /\ Has(LastCall(k2).context, TXSpan)
                 /\ Get(LastCall(k2).context, TXSpan).span # id
                 /\ \A i \in 1..Len(SpanValues(inflight[k2].req)) :
                      SpanValues(inflight[k2].req)[i] # id

C9_Unaltered ==
  \A k \in Calls :
    /\ k \in 1..Len(inflight')
    /\ inflight'[k].req = inflight[k].req
    /\ inflight'[k].context = inflight[k].context
    /\ inflight'[k].calls = inflight[k].calls

\* C9.  Concurrent requests through the same or cloned services are
\* isolated: in every state each request's terminal call carries that
\* request's own correlation id (C9_OwnContext), and no step changes the
\* request, context or forwarded calls recorded for a request already in
\* flight (C9_Unaltered).
C9_Isolation == [](C9_OwnContext) /\ [][C9_Unaltered]_vars

\* two requests overlap on a service and its clone, the later one is
\* answered first
C9_Witness ==
  /\ Len(inflight) = 2
  /\ OnAddContext(1)
  /\ inflight[1].h # inflight[2].h
  /\ Svc(1) = Svc(2)
  /\ inflight[1].req = ReqNone
  /\ inflight[2].req = ReqRepeated
  /\ IsPending(inflight[1].outcome)
  /\ ~IsPending(inflight[2].outcome)

(***************************************************************************)
(* C10.  Both request-level middlewares hand on the request they were      *)
(* given, headers and body unchanged, and AllowAllAuthenticator::call      *)
(* leaves the incoming context's frames in place below the one it adds:    *)
(* the correlation id pushed by AddContextService is still what get        *)
(* returns to the terminal service.                                        *)
(***************************************************************************)
C10_RequestAndFramesKept ==
  \A k \in Calls : \A j \in 1..Len(inflight[k].calls) :
    LET c == inflight[k].calls[j]
        before == ContextBefore(k, j)
    IN /\ c.req = inflight[k].req
       /\ c.by.kind = "AllowAllAuthenticator" =>
            /\ Len(c.context) = Len(before) + 1
            /\ SubSeq(c.context, 1, Len(before)) = before
            /\ c.context[Len(c.context)].type = TAuth
            /\ \A f \in 1..Len(before) :
                 before[f].type # TAuth =>
                   /\ Has(c.context, before[f].type)
                   /\ Get(c.context, before[f].type) = Get(before, before[f].type)
       /\ OnAddContext(k) =>
            /\ Has(LastCall(k).context, TXSpan)
            /\ Get(LastCall(k).context, TXSpan)
                 = Get(inflight[k].calls[1].context, TXSpan)

\* a request with headers and body went through both middlewares
C10_Witness ==
  \E k \in Calls :
    /\ OnAddContext(k)
    /\ Len(inflight[k].calls) = 2
    /\ inflight[k].req = ReqRepeated
    /\ LastCall(k).by.kind = "AllowAllAuthenticator"
    /\ Len(LastCall(k).context) = 2

====
